---- MODULE Spec2Model ----
(***************************************************************************)
(* Model of eslint-plugin-graphql-naming: the path-derived naming prefix    *)
(* (path-utils.ts), the expected-name generation and validation             *)
(* (naming-utils.ts) and the three rules that use them.                     *)
(*                                                                          *)
(* A JavaScript string is a sequence of one-character strings, so that the  *)
(* regular-expression replacements, split, startsWith and includes of the   *)
(* source are computed character by character.                              *)
(***************************************************************************)
EXTENDS Integers, Sequences, FiniteSets, TLC

VARIABLES
    pc,                \* which call has been made
    physicalFilename,  \* context.physicalFilename, the path argument
    options,           \* PathOptions: {} or {skipDirs: [...]}; in a lint session context.options
    typeName,          \* the GraphQL type name argument
    expectedPrefix,    \* the prefix argument of isValidName / generateExpectedName
    suffix,            \* what an author appends to a name
    actualName,        \* the name under validation
    expectedName,      \* result of generateExpectedName
    valid,             \* result of isValidName
    pathInfo,          \* result of extractPathInfo
    prefix,            \* result of calculatePrefix / calculatePrefixWithTypeName
    str,               \* the argument of toPascalCase
    pascal,            \* results of toPascalCase, applied once and twice
    schema,            \* context.parserServices?.schema
    listeners,         \* per rule: whether create() returned its node handler
    visits,            \* the handler calls made so far: rule, node, reports made
    reports,           \* the context.report calls made so far
    fileName,          \* the fileName argument of hasSignificantOverlap
    overlaps,          \* result of hasSignificantOverlap
    stripped,          \* what stripSuffix makes of the case-folded typeName, replace by replace
    operationType,     \* the operationType argument of getOperationTypeName
    firstFieldName,    \* the firstFieldName argument of getOperationTypeName
    resolved,          \* result of getOperationTypeName, and of unwrapType
    unwrapping         \* a call of unwrapType: its argument, current and the steps taken

vars == <<pc, physicalFilename, options, typeName, expectedPrefix, suffix,
          actualName, expectedName, valid, pathInfo, prefix, str, pascal,
          schema, listeners, visits, reports,
          fileName, overlaps, stripped, operationType, firstFieldName, resolved,
          unwrapping>>

\* the state of a lint session, left alone by the calls of the utilities
session == <<schema, listeners, visits, reports>>

\* the arguments and results of hasSignificantOverlap and of the type resolver,
\* left alone by every other call
overlapping == <<fileName, overlaps, stripped>>
resolving == <<operationType, firstFieldName, resolved>>

-----------------------------------------------------------------------------
(* Characters and JavaScript string primitives *)

\* Op applied to the value of v: v is evaluated once, as the initializer of a
\* JavaScript const or the argument of a call is
With(v, Op(_)) == CHOOSE r \in {Op(x) : x \in {v}} : TRUE

Max(S) == With(S, LAMBDA T : CHOOSE i \in T : \A j \in T : j =< i)

LowerLetters == <<"a", "b", "c", "d", "e", "f", "g", "h", "i", "j", "k", "l", "m", "n", "o", "p", "q", "r", "s", "t", "u", "v", "w", "x", "y", "z">>
UpperLetters == <<"A", "B", "C", "D", "E", "F", "G", "H", "I", "J", "K", "L", "M", "N", "O", "P", "Q", "R", "S", "T", "U", "V", "W", "X", "Y", "Z">>
LowerSet == {LowerLetters[i] : i \in DOMAIN LowerLetters}
UpperSet == {UpperLetters[i] : i \in DOMAIN UpperLetters}
Digits == {"0", "1", "2", "3", "4", "5", "6", "7", "8", "9"}

Range(f) == {f[i] : i \in DOMAIN f}

IsLower(c) == c \in LowerSet
IsUpper(c) == c \in UpperSet

IndexIn(c, letters) == CHOOSE i \in DOMAIN letters : letters[i] = c

\* String.prototype.toUpperCase / toLowerCase on one character
UpperChar(c) == IF IsLower(c) THEN UpperLetters[IndexIn(c, LowerLetters)] ELSE c
LowerChar(c) == IF IsUpper(c) THEN LowerLetters[IndexIn(c, UpperLetters)] ELSE c

\* a sequence written as a tuple
Tuple(f, n) == SubSeq(f, 1, n)

toLowerCase(text) ==
    With(text, LAMBDA s : Tuple([i \in 1..Len(s) |-> LowerChar(s[i])], Len(s)))

\* the regular-expression classes \w and \s
IsWordChar(c) == IsLower(c) \/ IsUpper(c) \/ c \in Digits \/ c = "_"
IsSpace(c) == c = " "

\* s.slice(from) with a 0-based index
Slice(text, from) == With(text, LAMBDA s : SubSeq(s, from + 1, Len(s)))

\* s.startsWith(t)
startsWith(text, search) ==
    With(<<text, search>>, LAMBDA a :
        Len(a[2]) =< Len(a[1]) /\ SubSeq(a[1], 1, Len(a[2])) = a[2])

\* s.endsWith(t)
endsWith(text, search) ==
    With(<<text, search>>, LAMBDA a :
        /\ Len(a[2]) =< Len(a[1])
        /\ SubSeq(a[1], Len(a[1]) - Len(a[2]) + 1, Len(a[1])) = a[2])

\* s.includes(t)
includes(text, search) ==
    With(<<text, search>>, LAMBDA a :
        \E i \in 0..(Len(a[1]) - Len(a[2])) : SubSeq(a[1], i + 1, i + Len(a[2])) = a[2])

\* s.replace(/[...]/g, '') for a character class: drop the characters of the class
RemoveChars(text, class) == SelectSeq(text, LAMBDA c : c \notin class)

\* s.replace(/[\[\]]/g, '')
RemoveBrackets(text) == RemoveChars(text, {"[", "]"})

\* the k-th smallest element of a set of numbers
Nth(S, k) == CHOOSE c \in S : Cardinality({d \in S : d < c}) = k - 1

\* s.split(separator) for a one-character separator: n separators give n + 1
\* pieces, piece k running from after separator k - 1 to before separator k
Split(text, separator) ==
    With(text, LAMBDA s :
    With({i \in 1..Len(s) : s[i] = separator}, LAMBDA cuts :
        Tuple([k \in 1..(Cardinality(cuts) + 1) |->
                  SubSeq(s,
                         IF k = 1 THEN 1 ELSE Nth(cuts, k - 1) + 1,
                         IF k = Cardinality(cuts) + 1 THEN Len(s)
                         ELSE Nth(cuts, k) - 1)],
              Cardinality(cuts) + 1)))

-----------------------------------------------------------------------------
(* naming-utils.ts *)

capitalizeTypeName(type) ==
    With(type, LAMBDA t :
        IF t = <<>> THEN <<>>
        ELSE <<UpperChar(t[1])>> \o Slice(t, 1))

isValidNameExact(actual, expPrefix, t) ==
    actual = expPrefix \o capitalizeTypeName(t)

isValidNameIncludes(actual, expPrefix, t) ==
    includes(actual, expPrefix \o capitalizeTypeName(t))

isValidName(actual, expPrefix, t) ==
    With(expPrefix \o capitalizeTypeName(t), LAMBDA expected :
        startsWith(actual, expected))

\* the prefix is left out of the expected name
generateExpectedNameTypeOnly(p, t) == capitalizeTypeName(t)

generateExpectedName(p, t) == p \o capitalizeTypeName(t)

-----------------------------------------------------------------------------
(* path-utils.ts *)

DEFAULT_SKIP_DIRS ==
    << <<"c", "o", "m", "p", "o", "n", "e", "n", "t", "s">>,
       <<"[", "i", "d", "]">>,
       <<"q", "u", "e", "r", "i", "e", "s">>,
       <<"m", "u", "t", "a", "t", "i", "o", "n", "s">>,
       <<"f", "r", "a", "g", "m", "e", "n", "t", "s">>,
       <<"s", "u", "b", "s", "c", "r", "i", "p", "t", "i", "o", "n", "s">>,
       <<"g", "r", "a", "p", "h", "q", "l">>,
       <<"g", "q", "l">>,
       <<"s", "r", "c">> >>

\* path.sep of the POSIX path module
sep == "/"

\* the name of a base: the base without its last extension; a base that has no
\* dot, starts with its only dot or is '..' has no extension
NameOfBase(base) ==
    With(base, LAMBDA b :
    With({i \in 1..Len(b) : b[i] = "."}, LAMBDA dots :
        IF dots = {} \/ b = <<".", ".">> THEN b
        ELSE With(Max(dots), LAMBDA startDot :
                 IF startDot = 1 THEN b ELSE SubSeq(b, 1, startDot - 1))))

\* path.parse(p) of the POSIX path module: the dir and the name of p. The base
\* runs from after the last separator that is not trailing to the last
\* character that is no separator; the dir is what precedes that separator.
PathParse(path) ==
    With(path, LAMBDA p :
        IF p = <<>> THEN [dir |-> <<>>, name |-> <<>>]
        ELSE
        With(IF p[1] = sep THEN 2 ELSE 1, LAMBDA start :
        With({i \in start..Len(p) : p[i] # sep}, LAMBDA nonSep :
            IF nonSep = {}
            THEN [dir |-> IF start = 2 THEN <<sep>> ELSE <<>>, name |-> <<>>]
            ELSE
            With(Max(nonSep), LAMBDA end :
            With(Max({0} \cup {i \in start..end : p[i] = sep}), LAMBDA startPart :
                [dir |-> IF startPart > 0 THEN SubSeq(p, 1, startPart - 1)
                         ELSE IF start = 2 THEN <<sep>> ELSE <<>>,
                 name |-> NameOfBase(SubSeq(p,
                                            IF startPart = 0 THEN start
                                            ELSE startPart + 1,
                                            end))])))))

\* the supplied list added to the default one
SkipDirsOfExtended(opts) ==
    IF "skipDirs" \in DOMAIN opts THEN opts.skipDirs \o DEFAULT_SKIP_DIRS
    ELSE DEFAULT_SKIP_DIRS

\* options.skipDirs ?? DEFAULT_SKIP_DIRS
SkipDirsOf(opts) ==
    IF "skipDirs" \in DOMAIN opts THEN opts.skipDirs ELSE DEFAULT_SKIP_DIRS

\* list.includes(x)
InList(list, x) ==
    With(<<list, x>>, LAMBDA a : \E i \in 1..Len(a[1]) : a[1][i] = a[2])

\* the skip lookup repeated while the candidate is a skip-set member
RECURSIVE SkipUp(_, _, _)
SkipUp(dirs, n, skipDirs) ==
    IF InList(skipDirs, dirs[n]) /\ n > 1 THEN SkipUp(dirs, n - 1, skipDirs)
    ELSE dirs[n]

extractPathInfoRepeated(p, opts) ==
    With(PathParse(p), LAMBDA parsed :
    With(Split(parsed.dir, sep), LAMBDA dirs :
        [dirName |-> RemoveBrackets(SkipUp(dirs, Len(dirs), SkipDirsOf(opts))),
         fileName |-> RemoveBrackets(Split(parsed.name, ".")[1])]))

extractPathInfo(p, opts) ==
    With(SkipDirsOf(opts), LAMBDA skipDirs :
    With(PathParse(p), LAMBDA parsed :
    With(Split(parsed.dir, sep), LAMBDA dirs :
        [dirName |->
            RemoveBrackets(IF InList(skipDirs, dirs[Len(dirs)]) /\ Len(dirs) > 1
                           THEN dirs[Len(dirs) - 1]
                           ELSE dirs[Len(dirs)]),
         fileName |-> RemoveBrackets(Split(parsed.name, ".")[1])])))

\* s.replace(/[-_]/g, ' ')
SeparatorsToSpaces(text) ==
    With(text, LAMBDA s :
        Tuple([i \in 1..Len(s) |-> IF s[i] \in {"-", "_"} THEN " " ELSE s[i]],
              Len(s)))

\* s.replace(/(?:^|\s)(\w)/g, (_, c) => c.toUpperCase()), scanning from the
\* 1-based index i: a word character at the start of the string, or a space
\* followed by a word character, is replaced by the uppercased word character
RECURSIVE CapitalizeWordsFrom(_, _)
CapitalizeWordsFrom(s, i) ==
    IF i > Len(s) THEN <<>>
    ELSE IF i = 1 /\ IsWordChar(s[1])
         THEN <<UpperChar(s[1])>> \o CapitalizeWordsFrom(s, 2)
    ELSE IF IsSpace(s[i]) /\ i + 1 =< Len(s) /\ IsWordChar(s[i + 1])
         THEN <<UpperChar(s[i + 1])>> \o With(i + 2, LAMBDA j : CapitalizeWordsFrom(s, j))
    ELSE <<s[i]>> \o With(i + 1, LAMBDA j : CapitalizeWordsFrom(s, j))

CapitalizeWords(text) == With(text, LAMBDA s : CapitalizeWordsFrom(s, 1))

\* s.replace(/\s+/g, '')
RemoveSpaces(text) == RemoveChars(text, {" "})

\* s.replace(/^./, (c) => c.toUpperCase())
UpperFirst(text) ==
    With(text, LAMBDA s :
        IF s = <<>> THEN <<>> ELSE <<UpperChar(s[1])>> \o Slice(s, 1))

toPascalCaseKeepSpaces(s) ==
    UpperFirst(CapitalizeWords(SeparatorsToSpaces(RemoveBrackets(s))))

\* the hyphens and underscores are left in place
toPascalCaseKeepSeparators(s) ==
    UpperFirst(RemoveSpaces(CapitalizeWords(RemoveBrackets(s))))

toPascalCase(s) ==
    UpperFirst(RemoveSpaces(CapitalizeWords(SeparatorsToSpaces(RemoveBrackets(s)))))

calculatePrefixDoubled(p, opts) ==
    With(extractPathInfo(p, opts), LAMBDA info :
        toPascalCase(info.dirName) \o toPascalCase(info.fileName))

calculatePrefix(p, opts) ==
    With(extractPathInfo(p, opts), LAMBDA info :
    With(toPascalCase(info.dirName), LAMBDA pascalDir :
    With(toPascalCase(info.fileName), LAMBDA pascalFile :
        IF pascalDir = pascalFile THEN pascalDir
        ELSE pascalDir \o pascalFile)))

\* the first alternative that fits the end, tried in the order written
StripPluralFirstAlternative(text) ==
    With(text, LAMBDA s :
        IF endsWith(s, <<"s">>) THEN SubSeq(s, 1, Len(s) - 1) ELSE s)

\* str.replace(/(s|es|ies)$/, ''): the leftmost match wins, so the longest of
\* the three endings that the string has is the one removed
StripPlural(text) ==
    With(text, LAMBDA s :
        IF endsWith(s, <<"i", "e", "s">>) THEN SubSeq(s, 1, Len(s) - 3)
        ELSE IF endsWith(s, <<"e", "s">>) THEN SubSeq(s, 1, Len(s) - 2)
        ELSE IF endsWith(s, <<"s">>) THEN SubSeq(s, 1, Len(s) - 1)
        ELSE s)

\* str.replace(/word$/, '')
StripEnding(text, word) ==
    With(text, LAMBDA s :
        IF endsWith(s, word) THEN SubSeq(s, 1, Len(s) - Len(word)) ELSE s)

stripSuffix(s) ==
    StripEnding(StripEnding(StripPlural(s), <<"l", "i", "s", "t">>),
                <<"d", "a", "t", "a">>)

\* the case-folded names compared as they are
hasSignificantOverlapUnstripped(t, f) ==
    With(toLowerCase(t), LAMBDA normalizedType :
    With(toLowerCase(f), LAMBDA normalizedFile :
        \/ includes(normalizedType, normalizedFile)
        \/ includes(normalizedFile, normalizedType)))

\* only the file name is looked for in the type name
hasSignificantOverlapOneWay(t, f) ==
    With(stripSuffix(toLowerCase(t)), LAMBDA strippedType :
    With(stripSuffix(toLowerCase(f)), LAMBDA strippedFile :
        \/ includes(strippedType, strippedFile)
        \/ strippedType = strippedFile))

\* names that strip to the empty string overlap with nothing
hasSignificantOverlapNonEmpty(t, f) ==
    With(stripSuffix(toLowerCase(t)), LAMBDA strippedType :
    With(stripSuffix(toLowerCase(f)), LAMBDA strippedFile :
        /\ strippedType # <<>> /\ strippedFile # <<>>
        /\ \/ includes(strippedType, strippedFile)
           \/ includes(strippedFile, strippedType)
           \/ strippedType = strippedFile))

hasSignificantOverlap(t, f) ==
    With(stripSuffix(toLowerCase(t)), LAMBDA strippedType :
    With(stripSuffix(toLowerCase(f)), LAMBDA strippedFile :
        \/ includes(strippedType, strippedFile)
        \/ includes(strippedFile, strippedType)
        \/ strippedType = strippedFile))

calculatePrefixWithTypeNameKeepDir(p, t, opts) ==
    With(extractPathInfo(p, opts), LAMBDA info :
    With(toPascalCase(info.dirName), LAMBDA pascalDir :
    With(toPascalCase(info.fileName), LAMBDA pascalFile :
        IF hasSignificantOverlap(t, info.fileName)
        THEN IF pascalDir = pascalFile THEN <<>> ELSE pascalDir
        ELSE IF pascalDir = pascalFile THEN pascalDir
             ELSE pascalDir \o pascalFile)))

\* the overlap of the type name and the file name is not looked at
calculatePrefixWithTypeNameNoOverlap(p, t, opts) ==
    With(extractPathInfo(p, opts), LAMBDA info :
    With(toPascalCase(info.dirName), LAMBDA pascalDir :
    With(toPascalCase(info.fileName), LAMBDA pascalFile :
        IF pascalDir = pascalFile THEN pascalDir
        ELSE IF pascalDir = <<>>
                \/ InList(DEFAULT_SKIP_DIRS, toLowerCase(info.dirName))
             THEN pascalFile
        ELSE pascalDir \o pascalFile)))

calculatePrefixWithTypeName(p, t, opts) ==
    With(extractPathInfo(p, opts), LAMBDA info :
    With(toPascalCase(info.dirName), LAMBDA pascalDir :
    With(toPascalCase(info.fileName), LAMBDA pascalFile :
        IF hasSignificantOverlap(t, info.fileName)
        THEN IF pascalDir = pascalFile THEN <<>>
             ELSE IF pascalDir # <<>>
                     /\ ~InList(DEFAULT_SKIP_DIRS, toLowerCase(info.dirName))
                  THEN pascalDir
             ELSE <<>>
        ELSE IF pascalDir = pascalFile THEN pascalDir
             ELSE IF pascalDir = <<>>
                     \/ InList(DEFAULT_SKIP_DIRS, toLowerCase(info.dirName))
                  THEN pascalFile
             ELSE pascalDir \o pascalFile)))

-----------------------------------------------------------------------------
(* naming-utils.ts: the operation type resolver *)

\* the null a string-valued call returns: a value that is no string of characters
Null == <<"null">>

\* an object without properties; an absent object (undefined) has none either
EmptyObject == [k \in {} |-> <<>>]

\* an object has the property and its value is not undefined
Has(obj, key) == key \in DOMAIN obj

\* takes off one wrapping layer only
unwrapTypeOnce(type) ==
    With(type, LAMBDA current :
        IF Has(current, "ofType") THEN current.ofType ELSE current)

\* follows ofType until a type reference has none
RECURSIVE unwrapType(_)
unwrapType(type) ==
    With(type, LAMBDA current :
        IF Has(current, "ofType") THEN unwrapType(current.ofType) ELSE current)

\* what a call ends with when it reads a property of undefined
TypeError == <<"TypeError">>

\* the field is read without the test that it is declared
getOperationTypeNameUnguarded(sch, kind, fieldName) ==
    With(CASE kind = "query" -> sch.queryType
           [] kind = "mutation" -> sch.mutationType
           [] kind = "subscription" -> sch.subscriptionType,
         LAMBDA rootType :
        IF ~Has(rootType, "fields") THEN Null
        ELSE IF ~Has(rootType.fields, fieldName) THEN TypeError
        ELSE IF ~Has(rootType.fields[fieldName], "type") THEN Null
        ELSE With(unwrapType(rootType.fields[fieldName].type),
                  LAMBDA unwrapped :
                      IF Has(unwrapped, "name") THEN unwrapped.name ELSE Null))

getOperationTypeName(sch, kind, fieldName) ==
    With(CASE kind = "query" -> sch.queryType
           [] kind = "mutation" -> sch.mutationType
           [] kind = "subscription" -> sch.subscriptionType,
         LAMBDA rootType :
        IF ~Has(rootType, "fields") THEN Null
        ELSE IF ~Has(rootType.fields, fieldName) THEN Null
        ELSE IF ~Has(rootType.fields[fieldName], "type") THEN Null
        ELSE With(unwrapType(rootType.fields[fieldName].type),
                  LAMBDA unwrapped :
                      IF Has(unwrapped, "name") THEN unwrapped.name ELSE Null))

-----------------------------------------------------------------------------
(* report-utils: reportNamingViolation and the messages *)

createFragmentMessage(expected) == [about |-> "Fragment", mustStartWith |-> expected]
createQueryMessage(expected) == [about |-> "Query", mustStartWith |-> expected]
createMutationMessage(expected) == [about |-> "Mutation", mustStartWith |-> expected]
createSubscriptionMessage(expected) == [about |-> "Subscription", mustStartWith |-> expected]

\* the range is read without the test that the node has one
FixOfUnguarded(nameNode, expected) ==
    IF Has(nameNode, "range")
    THEN [range |-> nameNode.range, text |-> expected]
    ELSE [fault |-> TypeError]

\* what the fix callbacks return: fixer.replaceTextRange(range, text), or null
\* for a node without a range
FixOf(nameNode, expected) ==
    IF Has(nameNode, "range")
    THEN [range |-> nameNode.range, text |-> expected]
    ELSE [none |-> TRUE]

\* the argument of the one context.report call reportNamingViolation makes
reportNamingViolation(ruleName, nameNode, expected, message) ==
    [rule |-> ruleName,
     node |-> nameNode,
     message |-> [text |-> message, expected |-> expected],
     fix |-> FixOf(nameNode, expected),
     suggest |-> <<[desc |-> expected, fix |-> FixOf(nameNode, expected)]>>]

-----------------------------------------------------------------------------
(* rules/fragment.ts, rules/operation.ts and the mutation rule: the reports   *)
(* one call of a rule's node handler makes                                    *)

\* options = context.options[0] ?? {}; pathOptions = { skipDirs: options.skipDirs },
\* where an undefined skipDirs is as an absent one
PathOptionsOf(contextOptions) ==
    With(IF Len(contextOptions) = 0 THEN EmptyObject ELSE contextOptions[1],
         LAMBDA ruleOptions :
             IF Has(ruleOptions, "skipDirs")
             THEN [skipDirs |-> ruleOptions.skipDirs]
             ELSE EmptyObject)

\* the report of a name that is not valid for prefix p and type t
ReportUnlessValid(ruleName, nameNode, p, t, Message(_)) ==
    IF ~isValidName(nameNode.value, p, t)
    THEN With(generateExpectedName(p, t), LAMBDA expected :
             <<reportNamingViolation(ruleName, nameNode, expected,
                                     Message(expected))>>)
    ELSE <<>>

\* the name and the type condition are read without the test that the node
\* has them
FragmentDefinitionUnguarded(node, filename, contextOptions) ==
    IF ~Has(node, "name") \/ ~Has(node, "typeCondition")
    THEN <<[fault |-> TypeError]>>
    ELSE With(node.typeCondition.name.value, LAMBDA t :
         With(calculatePrefixWithTypeName(filename, t, PathOptionsOf(contextOptions)),
              LAMBDA p :
                  ReportUnlessValid("fragment", node.name, p, t,
                                    createFragmentMessage)))

\* a handler that keeps the names it has reported and reports each of them
\* once: its outcome depends on the visits made before
FragmentDefinitionOncePerName(node, filename, contextOptions) ==
    IF ~Has(node, "name") \/ ~Has(node, "typeCondition") THEN <<>>
    ELSE IF \E k \in 1..Len(reports) :
                reports[k].rule = "fragment" /\ reports[k].node = node.name
    THEN <<>>
    ELSE With(node.typeCondition.name.value, LAMBDA t :
         With(calculatePrefixWithTypeName(filename, t, PathOptionsOf(contextOptions)),
              LAMBDA p :
                  ReportUnlessValid("fragment", node.name, p, t,
                                    createFragmentMessage)))

FragmentDefinition(node, filename, contextOptions) ==
    IF ~Has(node, "name") \/ ~Has(node, "typeCondition") THEN <<>>
    ELSE With(node.typeCondition.name.value, LAMBDA t :
         With(calculatePrefixWithTypeName(filename, t, PathOptionsOf(contextOptions)),
              LAMBDA p :
                  ReportUnlessValid("fragment", node.name, p, t,
                                    createFragmentMessage)))

\* the first selection has a name: it is a field or a fragment spread
FirstSelectionNamed(node) ==
    /\ Has(node, "selectionSet")
    /\ Has(node.selectionSet, "selections")
    /\ Len(node.selectionSet.selections) # 0
    /\ Has(node.selectionSet.selections[1], "name")

\* a type name is falsy when it is null or the empty string
Falsy(t) == t = Null \/ t = <<>>

\* the type name is used without the test that one was resolved: null has no
\* toLowerCase
OperationRuleOperationDefinitionNoTypeGuard(node, filename, contextOptions, sch) ==
    IF ~Has(node, "name") THEN <<>>
    ELSE IF node.operation # "query" /\ node.operation # "subscription" THEN <<>>
    ELSE IF ~FirstSelectionNamed(node) THEN <<>>
    ELSE With(getOperationTypeName(sch, node.operation,
                                   node.selectionSet.selections[1].name.value),
              LAMBDA t :
         IF t = Null THEN <<[fault |-> TypeError]>>
         ELSE With(calculatePrefixWithTypeName(filename, t,
                                               PathOptionsOf(contextOptions)),
                   LAMBDA p :
                       IF node.operation = "query"
                       THEN ReportUnlessValid("operation", node.name, p, t,
                                              createQueryMessage)
                       ELSE ReportUnlessValid("operation", node.name, p, t,
                                              createSubscriptionMessage)))

\* every kind of operation is validated, a mutation as a subscription is
OperationRuleOperationDefinitionAnyKind(node, filename, contextOptions, sch) ==
    IF ~Has(node, "name") THEN <<>>
    ELSE IF ~FirstSelectionNamed(node) THEN <<>>
    ELSE With(getOperationTypeName(sch, node.operation,
                                   node.selectionSet.selections[1].name.value),
              LAMBDA t :
         IF Falsy(t) THEN <<>>
         ELSE With(calculatePrefixWithTypeName(filename, t,
                                               PathOptionsOf(contextOptions)),
                   LAMBDA p :
                       IF node.operation = "query"
                       THEN ReportUnlessValid("operation", node.name, p, t,
                                              createQueryMessage)
                       ELSE ReportUnlessValid("operation", node.name, p, t,
                                              createSubscriptionMessage)))

OperationRuleOperationDefinition(node, filename, contextOptions, sch) ==
    IF ~Has(node, "name") THEN <<>>
    ELSE IF node.operation # "query" /\ node.operation # "subscription" THEN <<>>
    ELSE IF ~FirstSelectionNamed(node) THEN <<>>
    ELSE With(getOperationTypeName(sch, node.operation,
                                   node.selectionSet.selections[1].name.value),
              LAMBDA t :
         IF Falsy(t) THEN <<>>
         ELSE With(calculatePrefixWithTypeName(filename, t,
                                               PathOptionsOf(contextOptions)),
                   LAMBDA p :
                       IF node.operation = "query"
                       THEN ReportUnlessValid("operation", node.name, p, t,
                                              createQueryMessage)
                       ELSE ReportUnlessValid("operation", node.name, p, t,
                                              createSubscriptionMessage)))

MutationRuleOperationDefinition(node, filename, contextOptions, sch) ==
    IF ~Has(node, "name") THEN <<>>
    ELSE IF node.operation # "mutation" THEN <<>>
    ELSE IF ~FirstSelectionNamed(node) THEN <<>>
    ELSE With(getOperationTypeName(sch, "mutation",
                                   node.selectionSet.selections[1].name.value),
              LAMBDA t :
         IF Falsy(t) THEN <<>>
         ELSE With(calculatePrefixWithTypeName(filename, t,
                                               PathOptionsOf(contextOptions)),
                   LAMBDA p :
                       ReportUnlessValid("mutation", node.name, p, t,
                                         createMutationMessage)))

\* create(context) of the operation and the mutation rule returns {} without a
\* schema; the fragment rule needs none
CreateListeners(sch) ==
    [fragment |-> TRUE,
     operation |-> DOMAIN sch # {},
     mutation |-> DOMAIN sch # {}]

\* what the handler of a rule makes of a node in the context of the session:
\* its file, its options and its schema
HandlerOutcome(ruleName, node) ==
    CASE ruleName = "fragment" ->
             FragmentDefinition(node, physicalFilename, options)
      [] ruleName = "operation" ->
             OperationRuleOperationDefinition(node, physicalFilename, options, schema)
      [] ruleName = "mutation" ->
             MutationRuleOperationDefinition(node, physicalFilename, options, schema)

-----------------------------------------------------------------------------
(* Inputs *)

\* bounds of the model
MaxName == 2
MaxStr == 4
MaxDirs == 2

\* all strings over chars of length at most n
Strings(chars, n) == UNION {[1..k -> chars] : k \in 0..n}

\* all sequences over S of length at most n
SeqsUpTo(S, n) == UNION {[1..k -> S] : k \in 0..n}

\* names, prefixes and type names are drawn over a lowercase and an uppercase letter
NameChars == {"a", "A"}
Names == Strings(NameChars, MaxName)
ActualNames == Strings(NameChars, 2 * MaxName + 1)

\* the arguments of toPascalCase: letters, digits, hyphen, underscore, brackets,
\* space and dot
PascalChars == {"a", "B", "1", "-", "_", "[", "]", " ", "."}
PascalInputs == Strings(PascalChars, MaxStr)

DirNames ==
    { <<"c", "o", "m", "p", "o", "n", "e", "n", "t", "s">>,
      <<"[", "i", "d", "]">>,
      <<"u", "s", "e", "r", "s">>,
      <<"p", "a", "g", "e", "s">>,
      <<"C", "o", "m", "p", "o", "n", "e", "n", "t", "s">>,
      <<"s", "r", "c">>,
      <<"q", "u", "e", "r", "i", "e", "s">>,
      <<"H", "e", "a", "d", "e", "r">> }

FileBases ==
    { <<"U", "s", "e", "r", "C", "a", "r", "d", ".", "v", "u", "e">>,
      <<"U", "s", "e", "r", "s", ".", "v", "u", "e">>,
      <<"O", "r", "d", "e", "r", "T", "a", "s", "k", ".", "c", "l", "i", "e", "n", "t", ".", "f", "r", "a", "g", "m", "e", "n", "t", ".", "t", "s">>,
      <<"A", "s", "s", "i", "g", "n", "m", "e", "n", "t", "M", "e", "s", "s", "a", "g", "e", "s", ".", "g", "q", "l">>,
      <<"E", "d", "i", "t", "F", "o", "r", "m", ".", "v", "u", "e">>,
      <<"u", "s", "e", "r", "-", "c", "a", "r", "d", ".", "v", "u", "e">> }

TypeNames ==
    { <<"U", "s", "e", "r">>,
      <<"O", "r", "d", "e", "r">>,
      <<"A", "s", "s", "i", "g", "n", "m", "e", "n", "t", "M", "e", "s", "s", "a", "g", "e">> }

\* dirs joined by path.sep, each followed by one
RECURSIVE JoinDirs(_)
JoinDirs(ds) ==
    IF ds = <<>> THEN <<>> ELSE Head(ds) \o <<sep>> \o JoinDirs(Tail(ds))

\* absolute and relative paths of at most MaxDirs directories
Paths ==
    { (IF abs THEN <<sep>> ELSE <<>>) \o JoinDirs(ds) \o f :
          abs \in BOOLEAN, ds \in SeqsUpTo(DirNames, MaxDirs), f \in FileBases }

\* {} and {skipDirs: [...]}
NoOptions == EmptyObject
OptionValues ==
    { NoOptions,
      [skipDirs |-> << <<"p", "a", "g", "e", "s">> >>],
      [skipDirs |-> << <<"u", "s", "e", "r", "s">>, <<"c", "o", "m", "p", "o", "n", "e", "n", "t", "s">> >>] }

-----------------------------------------------------------------------------
(* SpecNaming: generateExpectedName and isValidName applied to drawn arguments *)

Idle == <<>>
\* no lint session is running
NoSession == schema = Idle /\ listeners = Idle /\ visits = Idle /\ reports = Idle
\* hasSignificantOverlap has no arguments
NoOverlap == fileName = Idle /\ overlaps = FALSE /\ stripped = Idle
\* getOperationTypeName has no arguments
NoResolving == operationType = Idle /\ firstFieldName = Idle /\ resolved = Idle

NoUnwrapping == unwrapping = Idle

InitNaming ==
    /\ pc = "start"
    /\ expectedPrefix \in Names
    /\ typeName \in Names
    /\ suffix = <<>>
    /\ actualName = <<>>
    /\ expectedName = <<>>
    /\ valid = FALSE
    /\ physicalFilename = Idle /\ options = NoOptions /\ pathInfo = Idle
    /\ prefix = Idle /\ str = Idle /\ pascal = Idle
    /\ NoSession /\ NoOverlap /\ NoResolving /\ NoUnwrapping

GenerateExpectedName ==
    /\ pc = "start"
    /\ expectedName' = generateExpectedName(expectedPrefix, typeName)
    /\ pc' = "generated"
    /\ UNCHANGED <<physicalFilename, options, typeName, expectedPrefix, suffix,
                   actualName, valid, pathInfo, prefix, str, pascal, session,
                   overlapping, resolving, unwrapping>>

\* the author appends a suffix to the expected name
AppendSuffix ==
    /\ pc = "generated"
    /\ suffix' \in Names
    /\ actualName' = expectedName \o suffix'
    /\ pc' = "named"
    /\ UNCHANGED <<physicalFilename, options, typeName, expectedPrefix,
                   expectedName, valid, pathInfo, prefix, str, pascal, session,
                   overlapping, resolving, unwrapping>>

\* the author writes any name
ChooseName ==
    /\ pc = "generated"
    /\ actualName' \in ActualNames
    /\ pc' = "named"
    /\ UNCHANGED <<physicalFilename, options, typeName, expectedPrefix, suffix,
                   expectedName, valid, pathInfo, prefix, str, pascal, session,
                   overlapping, resolving, unwrapping>>

IsValidName ==
    /\ pc = "named"
    /\ valid' = isValidName(actualName, expectedPrefix, typeName)
    /\ pc' = "validated"
    /\ UNCHANGED <<physicalFilename, options, typeName, expectedPrefix, suffix,
                   actualName, expectedName, pathInfo, prefix, str, pascal, session,
                   overlapping, resolving, unwrapping>>

NextNaming ==
    \/ GenerateExpectedName
    \/ AppendSuffix
    \/ ChooseName
    \/ IsValidName

SpecNaming == InitNaming /\ [][NextNaming]_vars

-----------------------------------------------------------------------------
(* SpecPascal: toPascalCase applied to a drawn string, then to its own result *)

InitPascal ==
    /\ pc = "start"
    /\ str \in PascalInputs
    /\ pascal = <<>>
    /\ physicalFilename = Idle /\ options = NoOptions /\ typeName = Idle
    /\ expectedPrefix = Idle /\ suffix = Idle /\ actualName = Idle
    /\ expectedName = Idle /\ valid = FALSE /\ pathInfo = Idle /\ prefix = Idle
    /\ NoSession /\ NoOverlap /\ NoResolving /\ NoUnwrapping

ToPascalCase ==
    /\ pc = "start"
    /\ pascal' = <<toPascalCase(str)>>
    /\ pc' = "once"
    /\ UNCHANGED <<physicalFilename, options, typeName, expectedPrefix, suffix,
                   actualName, expectedName, valid, pathInfo, prefix, str, session,
                   overlapping, resolving, unwrapping>>

ToPascalCaseAgain ==
    /\ pc = "once"
    /\ pascal' = Append(pascal, toPascalCase(pascal[1]))
    /\ pc' = "twice"
    /\ UNCHANGED <<physicalFilename, options, typeName, expectedPrefix, suffix,
                   actualName, expectedName, valid, pathInfo, prefix, str, session,
                   overlapping, resolving, unwrapping>>

NextPascal ==
    \/ ToPascalCase
    \/ ToPascalCaseAgain

SpecPascal == InitPascal /\ [][NextPascal]_vars

-----------------------------------------------------------------------------
(* SpecPath: the path-utils entry points applied to a drawn path, type name  *)
(* and options                                                               *)

InitPath ==
    /\ pc = "start"
    /\ physicalFilename \in Paths
    /\ typeName \in TypeNames
    /\ options \in OptionValues
    /\ pathInfo = [dirName |-> <<>>, fileName |-> <<>>]
    /\ prefix = <<>>
    /\ expectedPrefix = Idle /\ suffix = Idle /\ actualName = Idle
    /\ expectedName = Idle /\ valid = FALSE /\ str = Idle /\ pascal = Idle
    /\ NoSession /\ NoOverlap /\ NoResolving /\ NoUnwrapping

ExtractPathInfo ==
    /\ pc = "start"
    /\ pathInfo' = extractPathInfo(physicalFilename, options)
    /\ pc' = "extractPathInfo"
    /\ UNCHANGED <<physicalFilename, options, typeName, expectedPrefix, suffix,
                   actualName, expectedName, valid, prefix, str, pascal, session,
                   overlapping, resolving, unwrapping>>

CalculatePrefix ==
    /\ pc = "start"
    /\ prefix' = calculatePrefix(physicalFilename, options)
    /\ pc' = "calculatePrefix"
    /\ UNCHANGED <<physicalFilename, options, typeName, expectedPrefix, suffix,
                   actualName, expectedName, valid, pathInfo, str, pascal, session,
                   overlapping, resolving, unwrapping>>

CalculatePrefixWithTypeName ==
    /\ pc = "start"
    /\ prefix' = calculatePrefixWithTypeName(physicalFilename, typeName, options)
    /\ pc' = "calculatePrefixWithTypeName"
    /\ UNCHANGED <<physicalFilename, options, typeName, expectedPrefix, suffix,
                   actualName, expectedName, valid, pathInfo, str, pascal, session,
                   overlapping, resolving, unwrapping>>

NextPath ==
    \/ ExtractPathInfo
    \/ CalculatePrefix
    \/ CalculatePrefixWithTypeName

SpecPath == InitPath /\ [][NextPath]_vars

-----------------------------------------------------------------------------
(* The prefixes of paths over characters: calculatePrefix and                *)
(* calculatePrefixWithTypeName on every path of at most MaxPath characters   *)

MaxPath == 4

\* a lowercase and an uppercase letter, a digit, the hyphen, the underscore,
\* the brackets, the dot and the separator
PathChars == {"s", "B", "1", "-", "_", "[", "]", ".", "/"}

CharPaths == Strings(PathChars, MaxPath)

\* two type names that strip to the empty string, and one that does not
CharTypeNames == {<<"s">>, <<"L", "i", "s", "t">>, <<"B">>}

InitChars ==
    /\ pc = "start"
    /\ physicalFilename \in CharPaths
    /\ typeName \in CharTypeNames
    /\ options = NoOptions
    /\ pathInfo = [dirName |-> <<>>, fileName |-> <<>>]
    /\ prefix = <<>>
    /\ expectedPrefix = Idle /\ suffix = Idle /\ actualName = Idle
    /\ expectedName = Idle /\ valid = FALSE /\ str = Idle /\ pascal = Idle
    /\ NoSession /\ NoOverlap /\ NoResolving /\ NoUnwrapping

NextChars ==
    \/ CalculatePrefix
    \/ CalculatePrefixWithTypeName

SpecChars == InitChars /\ [][NextChars]_vars

-----------------------------------------------------------------------------
(* SpecOverlap: hasSignificantOverlap applied to a drawn type name and file   *)
(* name, and its stripSuffix applied to the case-folded type name            *)

MaxEndings == 2

Stems == { <<>>, <<"a">>, <<"B", "a">> }

\* the endings stripSuffix looks for
Endings == { <<"s">>, <<"e", "s">>, <<"i", "e", "s">>, <<"l", "i", "s", "t">>, <<"d", "a", "t", "a">> }

RECURSIVE Concat(_)
Concat(words) ==
    IF words = <<>> THEN <<>> ELSE Head(words) \o Concat(Tail(words))

\* the names of the tests of hasSignificantOverlap
ExampleWords == { <<"U", "s", "e", "r">>, <<"U", "s", "e", "r", "L", "i", "s", "t">>, <<"O", "r", "d", "e", "r", "C", "a", "r", "d">>, <<"O", "r", "d", "e", "r", "F", "o", "r", "C", "l", "i", "e", "n", "t">>, <<"O", "r", "d", "e", "r", "s">> }

\* a stem followed by at most MaxEndings endings, and the names of the tests
OverlapInputs ==
    { stem \o Concat(ends) : stem \in Stems, ends \in SeqsUpTo(Endings, MaxEndings) }
        \cup ExampleWords

InitOverlap ==
    /\ pc = "start"
    /\ typeName \in OverlapInputs
    /\ fileName \in OverlapInputs
    /\ overlaps = FALSE
    /\ stripped = Idle
    /\ physicalFilename = Idle /\ options = NoOptions /\ expectedPrefix = Idle
    /\ suffix = Idle /\ actualName = Idle /\ expectedName = Idle /\ valid = FALSE
    /\ pathInfo = Idle /\ prefix = Idle /\ str = Idle /\ pascal = Idle
    /\ NoSession /\ NoResolving /\ NoUnwrapping

\* stripSuffix(normalizedType), with what each of its three replaces returns
StripSuffix ==
    /\ pc = "start"
    /\ stripped' =
           With(toLowerCase(typeName), LAMBDA normalizedType :
           With(StripPlural(normalizedType), LAMBDA afterPlural :
           With(StripEnding(afterPlural, <<"l", "i", "s", "t">>), LAMBDA afterList :
               [normalized |-> normalizedType,
                plural |-> afterPlural,
                list |-> afterList,
                result |-> stripSuffix(normalizedType)])))
    /\ pc' = "stripSuffix"
    /\ UNCHANGED <<physicalFilename, options, typeName, expectedPrefix, suffix,
                   actualName, expectedName, valid, pathInfo, prefix, str, pascal,
                   session, fileName, overlaps, resolving, unwrapping>>

HasSignificantOverlap ==
    /\ pc = "start"
    /\ overlaps' = hasSignificantOverlap(typeName, fileName)
    /\ pc' = "hasSignificantOverlap"
    /\ UNCHANGED <<physicalFilename, options, typeName, expectedPrefix, suffix,
                   actualName, expectedName, valid, pathInfo, prefix, str, pascal,
                   session, fileName, stripped, resolving, unwrapping>>

NextOverlap ==
    \/ StripSuffix
    \/ HasSignificantOverlap

SpecOverlap == InitOverlap /\ [][NextOverlap]_vars

-----------------------------------------------------------------------------
(* SpecResolver: getOperationTypeName applied to a drawn schema, operation    *)
(* type and field name                                                        *)

MaxWrap == 2

\* a type under n wrapping layers (NonNull, List)
RECURSIVE WrapN(_, _)
WrapN(type, n) == IF n = 0 THEN type ELSE [ofType |-> WrapN(type, n - 1)]

\* terminal types: two named ones and one that carries no name
Terminals ==
    { [name |-> <<"U", "s", "e", "r">>], [name |-> <<"T", "a", "s", "k">>],
      EmptyObject }

FieldTypes == { WrapN(terminal, n) : terminal \in Terminals, n \in 0..MaxWrap }

\* a declared field: with a type, or without one
FieldDeclarations == { [type |-> type] : type \in FieldTypes } \cup { EmptyObject }

\* what schema.getQueryType() and its like return: no root type, one without
\* fields, one that declares the field users
RootTypes ==
    { EmptyObject, [fields |-> EmptyObject] }
        \cup { [fields |-> [users |-> field]] : field \in FieldDeclarations }

ResolverSchemas ==
    [queryType : RootTypes, mutationType : RootTypes, subscriptionType : RootTypes]

OperationTypes == {"query", "mutation", "subscription"}

\* a declared field name and one that no root type declares
FieldNames == {"users", "tasks"}

InitResolver ==
    /\ pc = "start"
    /\ schema \in ResolverSchemas
    /\ operationType \in OperationTypes
    /\ firstFieldName \in FieldNames
    /\ resolved = Idle
    /\ listeners = Idle /\ visits = Idle /\ reports = Idle
    /\ physicalFilename = Idle /\ options = NoOptions /\ typeName = Idle
    /\ expectedPrefix = Idle /\ suffix = Idle /\ actualName = Idle
    /\ expectedName = Idle /\ valid = FALSE /\ pathInfo = Idle /\ prefix = Idle
    /\ str = Idle /\ pascal = Idle
    /\ NoOverlap /\ NoUnwrapping

GetOperationTypeName ==
    /\ pc = "start"
    /\ resolved' = getOperationTypeName(schema, operationType, firstFieldName)
    /\ pc' = "getOperationTypeName"
    /\ UNCHANGED <<physicalFilename, options, typeName, expectedPrefix, suffix,
                   actualName, expectedName, valid, pathInfo, prefix, str, pascal,
                   session, overlapping, operationType, firstFieldName,
                   unwrapping>>

NextResolver ==
    \/ GetOperationTypeName

SpecResolver == InitResolver /\ [][NextResolver]_vars

-----------------------------------------------------------------------------
(* naming-utils: the loop of unwrapType, step by step, on the type of a field *)
(* of the schema                                                             *)

\* root types that declare the field users with a type
TypedRootTypes == { [fields |-> [users |-> [type |-> type]]] : type \in FieldTypes }

UnwrapSchemas ==
    [queryType : TypedRootTypes, mutationType : TypedRootTypes,
     subscriptionType : {EmptyObject}]

\* field.type of the field users of a root type
TypeOfUsers(rootType) == rootType.fields.users.type

\* unwrapType(field.type) is about to be called for the first field of a query
\* or a mutation
InitUnwrap ==
    /\ pc = "start"
    /\ schema \in UnwrapSchemas
    /\ operationType \in {"query", "mutation"}
    /\ firstFieldName = "users"
    /\ unwrapping = [type |-> TypeOfUsers(IF operationType = "query"
                                          THEN schema.queryType
                                          ELSE schema.mutationType)]
    /\ resolved = Idle
    /\ listeners = Idle /\ visits = Idle /\ reports = Idle
    /\ physicalFilename = Idle /\ options = NoOptions /\ typeName = Idle
    /\ expectedPrefix = Idle /\ suffix = Idle /\ actualName = Idle
    /\ expectedName = Idle /\ valid = FALSE /\ pathInfo = Idle /\ prefix = Idle
    /\ str = Idle /\ pascal = Idle
    /\ NoOverlap

\* let current = type
UnwrapEnter ==
    /\ pc = "start"
    /\ unwrapping' = [type |-> unwrapping.type, current |-> unwrapping.type,
                      steps |-> 0]
    /\ pc' = "while"
    /\ UNCHANGED <<physicalFilename, options, typeName, expectedPrefix, suffix,
                   actualName, expectedName, valid, pathInfo, prefix, str, pascal,
                   session, overlapping, resolving>>

\* two layers are taken off in one step
UnwrapStepSkipping ==
    /\ pc = "while"
    /\ Has(unwrapping.current, "ofType")
    /\ unwrapping' = [unwrapping EXCEPT
                          !.current = IF Has(unwrapping.current.ofType, "ofType")
                                      THEN unwrapping.current.ofType.ofType
                                      ELSE unwrapping.current.ofType,
                          !.steps = unwrapping.steps + 1]
    /\ UNCHANGED <<pc, physicalFilename, options, typeName, expectedPrefix, suffix,
                   actualName, expectedName, valid, pathInfo, prefix, str, pascal,
                   session, overlapping, resolving>>

\* while (current.ofType) { current = current.ofType }
UnwrapStep ==
    /\ pc = "while"
    /\ Has(unwrapping.current, "ofType")
    /\ unwrapping' = [unwrapping EXCEPT !.current = unwrapping.current.ofType,
                                        !.steps = unwrapping.steps + 1]
    /\ UNCHANGED <<pc, physicalFilename, options, typeName, expectedPrefix, suffix,
                   actualName, expectedName, valid, pathInfo, prefix, str, pascal,
                   session, overlapping, resolving>>

\* return current
UnwrapReturn ==
    /\ pc = "while"
    /\ ~Has(unwrapping.current, "ofType")
    /\ resolved' = unwrapping.current
    /\ pc' = "return"
    /\ UNCHANGED <<physicalFilename, options, typeName, expectedPrefix, suffix,
                   actualName, expectedName, valid, pathInfo, prefix, str, pascal,
                   session, overlapping, operationType, firstFieldName,
                   unwrapping>>

NextUnwrap ==
    \/ UnwrapEnter
    \/ UnwrapStep
    \/ UnwrapReturn

SpecUnwrapLoop == InitUnwrap /\ [][NextUnwrap]_vars

\* a call that has started runs on: the loop is sequential code
SpecUnwrap == SpecUnwrapLoop /\ WF_vars(NextUnwrap)

-----------------------------------------------------------------------------
(* Spec: a lint session. The three rules are created for one file, and their *)
(* node handlers are called on fragment and operation definitions.            *)

MaxVisits == 2

User == <<"U", "s", "e", "r">>
Task == <<"T", "a", "s", "k">>

RulePaths ==
    { <<"u", "s", "e", "r", "s", "/", "c", "o", "m", "p", "o", "n", "e", "n", "t", "s", "/", "U", "s", "e", "r", "C", "a", "r", "d", ".", "v", "u", "e">>,
      <<"H", "e", "a", "d", "e", "r", "/", "O", "r", "d", "e", "r", "T", "a", "s", "k", ".", "c", "l", "i", "e", "n", "t", ".", "f", "r", "a", "g", "m", "e", "n", "t", ".", "t", "s">> }

\* context.options: no options object, or one with skipDirs
ContextOptions == { <<>>, <<[skipDirs |-> << <<"p", "a", "g", "e", "s">> >>]>> }

Named(n) == [name |-> n]
Wrapping(type) == [ofType |-> type]

FullSchema ==
    [queryType |->
        [fields |-> [user |-> [type |-> Named(User)],
                     tasks |-> [type |-> Wrapping(Wrapping(Wrapping(Named(Task))))],
                     unnamed |-> [type |-> Wrapping(EmptyObject)]]],
     mutationType |->
        [fields |-> [createUser |-> [type |-> Wrapping(Named(User))]]],
     subscriptionType |->
        [fields |-> [taskAdded |-> [type |-> Named(Task)]]]]

QueryOnlySchema ==
    [queryType |-> FullSchema.queryType,
     mutationType |-> EmptyObject,
     subscriptionType |-> EmptyObject]

NoSchema == EmptyObject

Schemas == {NoSchema, FullSchema, QueryOnlySchema}

\* the names an author gives a construct of type t: the documented
\* {Prefix}{TypeName} with Prefix = PascalCase(dir) + PascalCase(file), and an
\* unrelated one
DocumentedName(t) ==
    calculatePrefix(physicalFilename, PathOptionsOf(options)) \o capitalizeTypeName(t)

Fields == <<"F", "i", "e", "l", "d", "s">>
GetIt == <<"G", "e", "t", "I", "t">>

NameNode(v) == [value |-> v, range |-> <<9, 9 + Len(v)>>]

FragmentOn(nameNode, t) ==
    [kind |-> "FragmentDefinition", name |-> nameNode,
     typeCondition |-> [name |-> [value |-> t]]]

FragmentNodes ==
    {[kind |-> "FragmentDefinition", typeCondition |-> [name |-> [value |-> User]]],
     [kind |-> "FragmentDefinition", name |-> NameNode(GetIt)],
     FragmentOn(NameNode(DocumentedName(User)), User),
     FragmentOn(NameNode(DocumentedName(Task) \o Fields), Task),
     FragmentOn(NameNode(GetIt), User),
     FragmentOn([value |-> GetIt], Task)}

\* the type the schema resolves the first field of an operation to, User where
\* it resolves none
TypeOfSelected(operation, field) ==
    IF DOMAIN schema = {} THEN User
    ELSE LET t == getOperationTypeName(schema, operation, field)
         IN IF t = Null THEN User ELSE t

SelectionSet(field) == [selections |-> <<[kind |-> "Field", name |-> [value |-> field]]>>]

Operation(operation, nameNode, field) ==
    [kind |-> "OperationDefinition", operation |-> operation, name |-> nameNode,
     selectionSet |-> SelectionSet(field)]

OperationNodes ==
    {[kind |-> "OperationDefinition", operation |-> "query",
      selectionSet |-> SelectionSet("user")],
     [kind |-> "OperationDefinition", operation |-> "mutation",
      name |-> NameNode(GetIt), selectionSet |-> [selections |-> <<>>]],
     Operation("query", NameNode(DocumentedName(TypeOfSelected("query", "user"))), "user"),
     Operation("query", NameNode(DocumentedName(TypeOfSelected("query", "tasks"))), "tasks"),
     Operation("query", NameNode(GetIt), "missing"),
     Operation("mutation", NameNode(DocumentedName(TypeOfSelected("mutation", "createUser"))), "createUser"),
     Operation("mutation", NameNode(GetIt), "createUser"),
     Operation("subscription", NameNode(DocumentedName(TypeOfSelected("subscription", "taskAdded")) \o Fields), "taskAdded"),
     Operation("subscription", [value |-> GetIt], "taskAdded"),
     Operation("query", NameNode(GetIt), "unnamed"),
     [kind |-> "OperationDefinition", operation |-> "mutation",
      selectionSet |-> SelectionSet("createUser")],
     [kind |-> "OperationDefinition", operation |-> "query",
      name |-> NameNode(GetIt), selectionSet |-> [selections |-> <<>>]]}

Init ==
    /\ pc = "linting"
    /\ physicalFilename \in RulePaths
    /\ options \in ContextOptions
    /\ schema \in Schemas
    /\ listeners = CreateListeners(schema)
    /\ visits = <<>>
    /\ reports = <<>>
    /\ typeName = Idle /\ expectedPrefix = Idle /\ suffix = Idle
    /\ actualName = Idle /\ expectedName = Idle /\ valid = FALSE
    /\ pathInfo = Idle /\ prefix = Idle /\ str = Idle /\ pascal = Idle
    /\ NoOverlap /\ NoResolving /\ NoUnwrapping

\* a handler call on node by rule that makes the reports made
Visited(ruleName, node, made) ==
    /\ visits' = Append(visits, [rule |-> ruleName, node |-> node, reported |-> made])
    /\ reports' = reports \o made
    /\ UNCHANGED <<pc, physicalFilename, options, typeName, expectedPrefix, suffix,
                   actualName, expectedName, valid, pathInfo, prefix, str, pascal,
                   schema, listeners, overlapping, resolving, unwrapping>>

VisitFragment ==
    /\ Len(visits) < MaxVisits
    /\ listeners.fragment
    /\ \E node \in FragmentNodes :
          Visited("fragment", node,
                  FragmentDefinition(node, physicalFilename, options))

VisitOperation ==
    /\ Len(visits) < MaxVisits
    /\ listeners.operation
    /\ \E node \in OperationNodes :
          Visited("operation", node,
                  OperationRuleOperationDefinition(node, physicalFilename, options,
                                                   schema))

VisitMutation ==
    /\ Len(visits) < MaxVisits
    /\ listeners.mutation
    /\ \E node \in OperationNodes :
          Visited("mutation", node,
                  MutationRuleOperationDefinition(node, physicalFilename, options,
                                                  schema))

Next ==
    \/ VisitFragment
    \/ VisitOperation
    \/ VisitMutation

Spec == Init /\ [][Next]_vars

-----------------------------------------------------------------------------
(* A lint session in which fixes are applied: the text of a reported name is *)
(* replaced as the fix says, and the construct is visited again              *)

\* the node after fixer.replaceTextRange(range, text) on its name
FixedNode(node, fix) ==
    [node EXCEPT !.name = [value |-> fix.text,
                           range |-> <<fix.range[1], fix.range[1] + Len(fix.text)>>]]

\* the fix of the last visit's report is applied and the rule visits the
\* construct again; a null fix changes nothing
ApplyFix ==
    /\ visits # <<>>
    /\ Len(visits) < MaxVisits
    /\ LET last == visits[Len(visits)]
       IN /\ last.reported # <<>>
          /\ Has(last.reported[1].fix, "text")
          /\ LET fixed == FixedNode(last.node, last.reported[1].fix)
             IN Visited(last.rule, fixed, HandlerOutcome(last.rule, fixed))

NextFix ==
    \/ VisitFragment
    \/ VisitOperation
    \/ VisitMutation
    \/ ApplyFix

SpecFix == Init /\ [][NextFix]_vars

-----------------------------------------------------------------------------
(* Properties of generateExpectedName and isValidName, under SpecNaming *)

\* C1: a name made of the expected name followed by any suffix, the empty one
\* included, is valid
C1_SuffixedNameIsValid ==
    pc = "validated" /\ actualName = expectedName \o suffix => valid

C1_Witness ==
    /\ pc = "validated"
    /\ expectedPrefix # <<>> /\ typeName # <<>> /\ suffix # <<>>
    /\ IsLower(typeName[1])
    /\ actualName = expectedName \o suffix
    /\ valid

\* name begins with start: name is start followed by some rest of name
BeginsWith(name, start) ==
    \E k \in 0..Len(name) : name = start \o SubSeq(name, k + 1, Len(name))

\* C2: a name that does not begin with the expected name is not valid
C2_OtherNameIsRejected ==
    pc = "validated" /\ ~BeginsWith(actualName, expectedName) => ~valid

\* a proper, non-empty prefix of the expected name that lacks nothing but its end
C2_Witness ==
    /\ pc = "validated"
    /\ actualName # <<>> /\ Len(actualName) < Len(expectedName)
    /\ BeginsWith(expectedName, actualName)
    /\ ~valid

-----------------------------------------------------------------------------
(* Properties of toPascalCase, under SpecPascal *)

IsCompactCapitalized(s) ==
    /\ s # <<>>
    /\ IsUpper(s[1])
    /\ \A i \in 1..Len(s) : IsLower(s[i]) \/ IsUpper(s[i]) \/ s[i] \in Digits

IsAllLowercase(s) == s # <<>> /\ \A i \in 1..Len(s) : IsLower(s[i])

\* C7: toPascalCase applied to its own result changes nothing; a compact
\* capitalized string is returned as it is, and an all-lowercase one with only
\* its first character capitalized
C7_ToPascalCaseIdempotent ==
    /\ pc = "twice" => pascal[2] = pascal[1]
    /\ pc \in {"once", "twice"} /\ IsCompactCapitalized(str) => pascal[1] = str
    /\ pc \in {"once", "twice"} /\ IsAllLowercase(str) =>
           pascal[1] = <<UpperChar(str[1])>> \o Tail(str)

C7_Witness ==
    /\ pc = "twice"
    /\ \E i \in 1..Len(str) : str[i] \in {"-", "_"}
    /\ \E i \in 1..Len(str) : str[i] \in {"[", "]"}
    /\ Len(pascal[1]) >= 2
    /\ pascal[1] # str
    /\ pascal[2] = pascal[1]

-----------------------------------------------------------------------------
(* Properties of the path-utils entry points, under SpecPath *)

\* the segments of the directory portion of a path
DirSegments(p) == Split(PathParse(p).dir, sep)

\* x is a member of list when case is ignored
InListIgnoringCase(list, x) ==
    \E i \in 1..Len(list) : toLowerCase(list[i]) = toLowerCase(x)

\* the decision table of calculatePrefixWithTypeName, for a skip-set
DecisionTable(info, t, skipSet) ==
    LET overlap == hasSignificantOverlap(t, info.fileName)
        pascalDir == toPascalCase(info.dirName)
        pascalFile == toPascalCase(info.fileName)
        meaningful == info.dirName # <<>> /\ ~InListIgnoringCase(skipSet, info.dirName)
    IN CASE overlap /\ pascalDir = pascalFile -> <<>>
         [] overlap /\ pascalDir # pascalFile /\ meaningful -> pascalDir
         [] overlap /\ pascalDir # pascalFile /\ ~meaningful -> <<>>
         [] ~overlap /\ pascalDir = pascalFile -> pascalDir
         [] ~overlap /\ pascalDir # pascalFile /\ ~meaningful -> pascalFile
         [] OTHER -> pascalDir \o pascalFile

C5_DecisionTableConfigured ==
    pc = "calculatePrefixWithTypeName" /\ "skipDirs" \in DOMAIN options =>
        prefix = DecisionTable(extractPathInfo(physicalFilename, options),
                               typeName, options.skipDirs)

NamedDirs(p) == SelectSeq(DirSegments(p), LAMBDA d : d # <<>>)

\* C9: a path that names one directory, relative or absolute, keeps that
\* directory as dirName, skip-set member or not
C9_SingleDirectoryKept ==
    pc = "extractPathInfo" /\ Len(NamedDirs(physicalFilename)) = 1 =>
        pathInfo.dirName = RemoveBrackets(NamedDirs(physicalFilename)[1])

\* C10: a file directly in a directory [id] that has a parent directory gets the
\* prefix Id followed by the normalized file name
C10_DynamicRoutePrefix ==
    /\ pc = "calculatePrefix" /\ options = NoOptions
    /\ Len(NamedDirs(physicalFilename)) >= 2
    /\ NamedDirs(physicalFilename)[Len(NamedDirs(physicalFilename))] = <<"[", "i", "d", "]">>
    => prefix = <<"I", "d">> \o
                toPascalCase(extractPathInfo(physicalFilename, options).fileName)

-----------------------------------------------------------------------------
(* Properties of hasSignificantOverlap, under SpecOverlap *)

\* part occurs in whole: some stretch of whole is part, character by character
Contains(whole, part) ==
    \E i \in 0..Len(whole) :
        /\ i + Len(part) =< Len(whole)
        /\ \A k \in 1..Len(part) : whole[i + k] = part[k]

WithoutEnding(text, ending) ==
    IF Len(text) >= Len(ending)
       /\ \A k \in 1..Len(ending) : text[Len(text) - Len(ending) + k] = ending[k]
    THEN SubSeq(text, 1, Len(text) - Len(ending))
    ELSE text

\* after the plural step comes a trailing list, then a trailing data
ListThenData ==
    /\ stripped.list = WithoutEnding(stripped.plural, <<"l", "i", "s", "t">>)
    /\ stripped.result = WithoutEnding(stripped.list, <<"d", "a", "t", "a">>)

\* C13 as stated: the plural step removes one or two characters at most, then
\* a trailing list and a trailing data are removed
C13_PluralAtMostTwo ==
    pc = "stripSuffix" =>
        /\ Len(stripped.normalized) - Len(stripped.plural) =< 2
        /\ ListThenData

\* C13 amended: the plural step removes the ending ies, three characters, where
\* the name has it, else es, else s, and never more than three characters; then
\* a trailing list and a trailing data are removed
C13_PluralAtMostThree ==
    pc = "stripSuffix" =>
        /\ Len(stripped.normalized) - Len(stripped.plural) =< 3
        /\ stripped.plural =
               LET withoutIes == WithoutEnding(stripped.normalized, <<"i", "e", "s">>)
                   withoutEs == WithoutEnding(stripped.normalized, <<"e", "s">>)
                   withoutS == WithoutEnding(stripped.normalized, <<"s">>)
               IN IF withoutIes # stripped.normalized THEN withoutIes
                  ELSE IF withoutEs # stripped.normalized THEN withoutEs
                  ELSE withoutS
        /\ ListThenData

\* a name ending in listies loses ies as a whole, then list
C13_Witness ==
    /\ pc = "stripSuffix"
    /\ Len(stripped.normalized) - Len(stripped.plural) = 3
    /\ fileName = <<>>
    /\ typeName = <<"B", "a", "l", "i", "s", "t", "i", "e", "s">>
    /\ stripped.result = <<"b", "a">>

-----------------------------------------------------------------------------
(* Properties of getOperationTypeName, under SpecResolver *)

\* the root type the schema has for the requested operation type
RequestedRoot ==
    CASE operationType = "query" -> schema.queryType
      [] operationType = "mutation" -> schema.mutationType
      [] operationType = "subscription" -> schema.subscriptionType

RootExists == "fields" \in DOMAIN RequestedRoot
FieldDeclared == RootExists /\ firstFieldName \in DOMAIN RequestedRoot.fields
FieldTyped == FieldDeclared /\ "type" \in DOMAIN RequestedRoot.fields[firstFieldName]

\* the declared type of the field is the terminal under n wrapping layers
DeclaredAs(terminal, n) ==
    FieldTyped /\ RequestedRoot.fields[firstFieldName].type = WrapN(terminal, n)

\* C15: where the root type exists and declares the field, the name of the
\* terminal type under any number of wrapping layers, none included, is returned
C15_TerminalNameResolved ==
    pc = "getOperationTypeName" =>
        \A n \in 0..MaxWrap :
            \A terminal \in Terminals :
                DeclaredAs(terminal, n) /\ "name" \in DOMAIN terminal =>
                    resolved = terminal.name

\* a subscription field declared as Task under two layers
C15_Witness ==
    /\ pc = "getOperationTypeName"
    /\ operationType = "subscription"
    /\ DeclaredAs([name |-> <<"T", "a", "s", "k">>], 2)
    /\ resolved = <<"T", "a", "s", "k">>

\* C16: null is returned, and the call ends with nothing else, where the root
\* type does not exist, the field is not declared, the field has no type, or
\* the terminal type has no name
C16_AbsenceIsNull ==
    pc = "getOperationTypeName" =>
        /\ ~RootExists => resolved = Null
        /\ RootExists /\ ~FieldDeclared => resolved = Null
        /\ FieldDeclared /\ ~FieldTyped => resolved = Null
        /\ (\E n \in 0..MaxWrap : DeclaredAs(EmptyObject, n)) => resolved = Null

\* the root type exists and declares another field than the one asked for
C16_Witness ==
    /\ pc = "getOperationTypeName"
    /\ operationType = "mutation"
    /\ RootExists /\ RequestedRoot.fields # EmptyObject /\ ~FieldDeclared
    /\ resolved = Null

-----------------------------------------------------------------------------
(* Properties of the rules, under Spec *)

\* the type a visited node is named after: the type condition of a fragment,
\* the resolved type of the first field of an operation
NodeTypeName(node) ==
    IF node.kind = "FragmentDefinition"
    THEN IF Has(node, "typeCondition") THEN node.typeCondition.name.value ELSE Null
    ELSE IF DOMAIN schema = {} \/ ~FirstSelectionNamed(node) THEN Null
    ELSE getOperationTypeName(schema, node.operation,
                              node.selectionSet.selections[1].name.value)

\* C3: with the default options, a construct named {Prefix}{TypeName} followed
\* by any suffix, with Prefix = PascalCase(directory name) + PascalCase(file
\* name), is not reported
C3_DocumentedNameAccepted ==
    \A i \in 1..Len(visits) :
        /\ options = <<>>
        /\ Has(visits[i].node, "name")
        /\ ~Falsy(NodeTypeName(visits[i].node))
        /\ BeginsWith(visits[i].node.name.value,
                      DocumentedName(NodeTypeName(visits[i].node)))
        => visits[i].reported = <<>>

\* the visited node is an operation definition
IsOperation(node) == node.kind = "OperationDefinition"

\* the name the rules expect of a visited node that a type name is resolved for
ExpectedNameOf(node) ==
    generateExpectedName(
        calculatePrefixWithTypeName(physicalFilename, NodeTypeName(node),
                                    PathOptionsOf(options)),
        NodeTypeName(node))

\* C17: without a schema the operation and the mutation rule have no handler,
\* so none of their visits happens; and a visit of an operation that no type
\* name is resolved for makes no report and ends with no fault
C17_NoTypeNameNoReport ==
    /\ DOMAIN schema = {} => ~listeners.operation /\ ~listeners.mutation
    /\ \A i \in 1..Len(visits) :
          visits[i].rule \in {"operation", "mutation"} =>
              /\ DOMAIN schema # {}
              /\ Falsy(NodeTypeName(visits[i].node)) => visits[i].reported = <<>>

\* a query whose field is declared with a nameless terminal type, and a
\* mutation in a schema without mutation type, both under names that a resolved
\* type name would not allow
C17_Witness ==
    /\ Len(visits) = 2
    /\ schema = QueryOnlySchema
    /\ visits[1].rule = "operation"
    /\ visits[1].node = Operation("query", NameNode(GetIt), "unnamed")
    /\ visits[2].rule = "mutation"
    /\ visits[2].node = Operation("mutation", NameNode(GetIt), "createUser")
    /\ reports = <<>>

\* a named operation with a resolved type name whose name does not begin with
\* the expected name
Misnamed(node) ==
    /\ Has(node, "name")
    /\ ~Falsy(NodeTypeName(node))
    /\ ~BeginsWith(node.name.value, ExpectedNameOf(node))

\* C18: the operation rule does not report on a mutation, the mutation rule
\* does not report on a query or a subscription, the rule of the kind does
\* report a misnamed operation, and no node is reported by both rules
C18_RulesPartitionKinds ==
    /\ \A i \in 1..Len(visits) :
          LET node == visits[i].node
          IN /\ visits[i].rule = "operation" /\ node.operation = "mutation" =>
                    visits[i].reported = <<>>
             /\ visits[i].rule = "mutation" /\ node.operation # "mutation" =>
                    visits[i].reported = <<>>
             /\ /\ IsOperation(node)
                /\ visits[i].rule =
                       (IF node.operation = "mutation" THEN "mutation" ELSE "operation")
                /\ Misnamed(node)
                => Len(visits[i].reported) = 1
    /\ \A i, j \in 1..Len(visits) :
          /\ visits[i].rule = "operation" /\ visits[j].rule = "mutation"
          /\ visits[i].node = visits[j].node
          => visits[i].reported = <<>> \/ visits[j].reported = <<>>

\* a misnamed mutation visited by both rules: only the mutation rule reports
C18_Witness ==
    /\ Len(visits) = 2
    /\ visits[1].rule = "operation" /\ visits[2].rule = "mutation"
    /\ visits[1].node = visits[2].node
    /\ visits[1].node.operation = "mutation"
    /\ Misnamed(visits[1].node)
    /\ visits[1].reported = <<>>
    /\ Len(visits[2].reported) = 1
    /\ Len(reports) = 1

\* a node the rules leave alone: one without a name, an operation without
\* selections, a fragment without type condition
Unvalidated(node) ==
    \/ ~Has(node, "name")
    \/ IsOperation(node) /\ node.selectionSet.selections = <<>>
    \/ ~IsOperation(node) /\ ~Has(node, "typeCondition")

\* C19: a visit of a construct without a name, of an operation with no
\* selections or of a fragment without type condition makes no report, and no
\* report is on such a construct
C19_UnnamedNeverReported ==
    /\ \A i \in 1..Len(visits) :
          Unvalidated(visits[i].node) => visits[i].reported = <<>>
    /\ Len(reports) =< Cardinality({i \in 1..Len(visits) : ~Unvalidated(visits[i].node)})

\* an unnamed fragment and an unnamed mutation, each visited by its rule
C19_Witness ==
    /\ Len(visits) = 2
    /\ visits[1].rule = "fragment" /\ ~Has(visits[1].node, "name")
    /\ visits[2].rule = "mutation" /\ ~Has(visits[2].node, "name")
    /\ visits[2].node.operation = "mutation"
    /\ ~Falsy(NodeTypeName(visits[2].node))
    /\ reports = <<>>

\* C20: the fix and the one suggestion of a report replace the range of the
\* name node by the expected name, the one the message gives; for a name node
\* without range the fix is null
C20_FixReplacesNameByExpected ==
    \A i \in 1..Len(visits) :
        \A k \in 1..Len(visits[i].reported) :
            LET report == visits[i].reported[k]
                nameNode == visits[i].node.name
                expected == ExpectedNameOf(visits[i].node)
            IN /\ report.node = nameNode
               /\ report.message.expected = expected
               /\ report.message.text.mustStartWith = expected
               /\ Len(report.suggest) = 1
               /\ report.suggest[1].fix = report.fix
               /\ report.suggest[1].desc = expected
               /\ report.fix = IF "range" \in DOMAIN nameNode
                                THEN [range |-> nameNode.range, text |-> expected]
                                ELSE [none |-> TRUE]

\* one report on a name node with a range, one on a name node without
C20_Witness ==
    /\ Len(visits) = 2
    /\ Len(visits[1].reported) = 1 /\ Len(visits[2].reported) = 1
    /\ "range" \in DOMAIN visits[1].node.name
    /\ visits[1].reported[1].fix =
           [range |-> visits[1].node.name.range, text |-> ExpectedNameOf(visits[1].node)]
    /\ visits[1].reported[1].fix.text # visits[1].node.name.value
    /\ "range" \notin DOMAIN visits[2].node.name
    /\ visits[2].reported[1].fix = [none |-> TRUE]
    /\ reports = visits[1].reported \o visits[2].reported

\* ---------------------------------------------------------------------------
\* Skip-only directory chains (path-utils.ts 160-198)
\* ---------------------------------------------------------------------------

\* every named directory of the path is a member of the default skip set (and
\* so is a path without any named directory)
SkipOnlyChain(p) ==
    \A i \in 1..Len(NamedDirs(p)) : InList(DEFAULT_SKIP_DIRS, NamedDirs(p)[i])

\* C21: with the default options, a path whose directory chain is empty or
\* holds only members of the skip set gets no directory in its prefix: the
\* prefix is empty when the type name overlaps the file name, and the
\* normalized file name alone otherwise
C21_SkipOnlyChainGivesNoDirectory ==
    pc = "calculatePrefixWithTypeName" /\ options = NoOptions
        /\ SkipOnlyChain(physicalFilename) =>
        With(extractPathInfo(physicalFilename, options).fileName,
             LAMBDA f : prefix = IF hasSignificantOverlap(typeName, f)
                                 THEN <<>>
                                 ELSE toPascalCase(f))

\* ---------------------------------------------------------------------------
\* Independence of the visits (operation.ts 61-142, fragment.ts 56-94)
\* ---------------------------------------------------------------------------

AssignmentMessagesPath ==
    <<"s", "r", "c", "/", "q", "u", "e", "r", "i", "e", "s", "/",
      "A", "s", "s", "i", "g", "n", "m", "e", "n", "t",
      "M", "e", "s", "s", "a", "g", "e", "s", ".", "g", "q", "l">>

AssignmentMessage ==
    <<"A", "s", "s", "i", "g", "n", "m", "e", "n", "t", "M", "e", "s", "s", "a", "g", "e">>

\* calculatePrefixWithTypeName has run on the scenario with the default skip set
AssignmentMessagesDone ==
    /\ pc = "calculatePrefixWithTypeName" /\ options = NoOptions
    /\ physicalFilename = AssignmentMessagesPath
    /\ typeName = AssignmentMessage

\* C23: for src/queries/AssignmentMessages.gql with type AssignmentMessage and
\* the default skip set the type name overlaps the file name, the normalized
\* directory and file candidates are equal after the skip resolution, the
\* prefix is empty and the expected name is AssignmentMessage
C23_ScenarioCandidatesEqual ==
    AssignmentMessagesDone =>
        With(extractPathInfo(physicalFilename, options), LAMBDA info :
            /\ hasSignificantOverlap(typeName, info.fileName)
            /\ toPascalCase(info.dirName) = toPascalCase(info.fileName)
            /\ prefix = <<>>
            /\ generateExpectedName(prefix, typeName) = AssignmentMessage)

\* C23 as amended: the type name overlaps the file name, the directory
\* candidate after the skip resolution is src, whose normalized form Src
\* differs from the normalized file candidate AssignmentMessages; src is a
\* member of the default skip set, the prefix is empty and the expected name is
\* AssignmentMessage
C23_ScenarioSkippedDirectory ==
    AssignmentMessagesDone =>
        With(extractPathInfo(physicalFilename, options), LAMBDA info :
            /\ hasSignificantOverlap(typeName, info.fileName)
            /\ info.dirName = <<"s", "r", "c">>
            /\ toPascalCase(info.dirName) = <<"S", "r", "c">>
            /\ toPascalCase(info.fileName) = AssignmentMessage \o <<"s">>
            /\ InList(DEFAULT_SKIP_DIRS, toLowerCase(info.dirName))
            /\ prefix = <<>>
            /\ generateExpectedName(prefix, typeName) = AssignmentMessage)

\* the scenario has run and its prefix is empty
C23_Witness ==
    AssignmentMessagesDone /\ prefix = <<>>

\* ---------------------------------------------------------------------------
\* The shape of a prefix (path-utils.ts 72-84, 160-198), under SpecChars
\* ---------------------------------------------------------------------------

\* C24: a prefix returned by calculatePrefix or calculatePrefixWithTypeName is
\* empty, or it holds no hyphen, underscore, bracket or whitespace character
\* and does not start with a lowercase letter
C24_PrefixEmptyOrCompact ==
    pc \in {"calculatePrefix", "calculatePrefixWithTypeName"} =>
        \/ prefix = <<>>
        \/ /\ \A i \in 1..Len(prefix) :
                  prefix[i] \notin {"-", "_", "[", "]"} /\ ~IsSpace(prefix[i])
           /\ ~IsLower(prefix[1])

\* a directory with an underscore and a file: s_/B gives SB
C24_Witness ==
    /\ pc = "calculatePrefix"
    /\ physicalFilename = <<"s", "_", "/", "B">>
    /\ prefix = <<"S", "B">>

\* ---------------------------------------------------------------------------
\* Termination of unwrapType (naming-utils.ts 9-19), under SpecUnwrap
\* ---------------------------------------------------------------------------

\* C25: on a type under n wrapping layers unwrapType returns, after exactly n
\* steps of its loop, each of which takes one layer off, the first reference
\* without a nested type; no step changes the schema or the argument
C25_UnwrapTerminatesAfterNSteps ==
    /\ <>(pc = "return")
    /\ [](\A terminal \in Terminals, n \in 0..MaxWrap :
              unwrapping.type = WrapN(terminal, n) =>
                  /\ pc = "while" =>
                         /\ unwrapping.steps =< n
                         /\ unwrapping.current = WrapN(terminal, n - unwrapping.steps)
                  /\ pc = "return" =>
                         /\ unwrapping.steps = n
                         /\ resolved = terminal
                         /\ ~Has(resolved, "ofType")
                         /\ resolved = unwrapType(unwrapping.type))
    /\ [][schema' = schema /\ unwrapping.type' = unwrapping.type]_vars

\* a call on a mutation field declared as Task under two layers has returned
\* Task after two steps
C25_Witness ==
    /\ pc = "return"
    /\ operationType = "mutation"
    /\ TypeOfUsers(schema.mutationType) = WrapN([name |-> <<"T", "a", "s", "k">>], 2)
    /\ unwrapping.steps = 2
    /\ resolved = [name |-> <<"T", "a", "s", "k">>]

\* ---------------------------------------------------------------------------
\* Convergence of the fix (fragment.ts 72-91, naming-utils.ts 83-101, 126-138),
\* under SpecFix
\* ---------------------------------------------------------------------------

\* visit i is of the construct of visit i - 1 with its reported name replaced
\* by the text of the fix
RevisitsFixed(i) ==
    /\ visits[i - 1].reported # <<>>
    /\ Has(visits[i - 1].reported[1].fix, "text")
    /\ visits[i].rule = visits[i - 1].rule
    /\ visits[i].node = FixedNode(visits[i - 1].node, visits[i - 1].reported[1].fix)

\* C26: a construct visited again after its reported name was replaced by the
\* text of the fix is not reported: the fixed name is the expected name
C26_FixConvergesInOneStep ==
    \A i \in 2..Len(visits) :
        RevisitsFixed(i) =>
            /\ visits[i].reported = <<>>
            /\ visits[i].node.name.value = visits[i - 1].reported[1].message.expected

\* a misnamed query reported by the operation rule, fixed and visited again
C26_Witness ==
    /\ Len(visits) = 2
    /\ visits[1].rule = "operation"
    /\ Len(visits[1].reported) = 1
    /\ RevisitsFixed(2)
    /\ visits[2].node.name.value # visits[1].node.name.value
    /\ reports = visits[1].reported

\* ---------------------------------------------------------------------------
\* Names that strip to the empty string (path-utils.ts 125-142, 174-185),
\* under SpecChars
\* ---------------------------------------------------------------------------

\* the case-folded name loses all of its characters to the suffix stripping
StripsToEmpty(name) == stripSuffix(toLowerCase(name)) = <<>>

\* C27: where the type name or the file name strips to the empty string the
\* two overlap, whatever the other one is, and the prefix of
\* calculatePrefixWithTypeName is without the file name: it is empty or the
\* normalized directory
C27_EmptyStrippedAlwaysOverlaps ==
    pc = "calculatePrefixWithTypeName" =>
        With(extractPathInfo(physicalFilename, options), LAMBDA info :
            StripsToEmpty(typeName) \/ StripsToEmpty(info.fileName) =>
                /\ hasSignificantOverlap(typeName, info.fileName)
                /\ prefix \in {<<>>, toPascalCase(info.dirName)})

\* type List and the file B in the directory 1: List strips to the empty
\* string, B does not, and the prefix is the directory alone
C27_Witness ==
    /\ pc = "calculatePrefixWithTypeName"
    /\ typeName = <<"L", "i", "s", "t">>
    /\ physicalFilename = <<"1", "/", "B">>
    /\ StripsToEmpty(typeName)
    /\ ~StripsToEmpty(<<"B">>)
    /\ prefix = <<"1">>

==============================================================================
